---- MODULE Spec2Model ----
(***************************************************************************)
(* A2A Agent Registry: the record store of src/src/main.py (register,      *)
(* heartbeat, list, search, get, delete) and the card validator of         *)
(* src/src/validator.py as a state machine.                                *)
(*                                                                         *)
(* Strings the code takes apart (names, identifiers, the Authorization     *)
(* header) are sequences of one-character strings; an Optional value is    *)
(* the empty sequence (None) or a one-element sequence (a value).  Time is *)
(* counted in minutes.                                                     *)
(*                                                                         *)
(* The handlers read and write the columns heartbeat_token, status, load   *)
(* and status_message of AgentModel (main.py 205-215, 385-397); the model  *)
(* takes the table to hold them, as the handlers do.                       *)
(***************************************************************************)
EXTENDS Integers, Sequences, FiniteSets, TLC

VARIABLES
    store,    \* the agents table: identifier -> row
    clock,    \* datetime.utcnow(), in minutes
    issued,   \* heartbeat tokens generated so far
    beats,    \* successful heartbeats so far
    pc,       \* where each server process stands in the request it handles
    loc,      \* the local variables of that handler
    wresp,    \* the last response of each server process
    started,  \* requests the server processes have taken
    base,     \* the table when the requests now overlapping began
    ran,      \* the requests completed since then, in order of completion
    card_data,  \* the card handed to validate_agent_card
    result      \* the ValidationResult it returned

raceVars == <<pc, loc, wresp, started, base, ran>>

validatorVars == <<card_data, result>>

vars == <<store, clock, issued, beats, pc, loc, wresp, started, base, ran,
          card_data, result>>

-----------------------------------------------------------------------------
(* Bounds of the model. *)

\* registrations and successful heartbeats in one behaviour
MaxOps == 3
\* registrations in one behaviour where only identifiers are followed
MaxIdRegs == 4
\* requests taken in one behaviour of the concurrent server processes
MaxRaceOps == 3

-----------------------------------------------------------------------------
(* Values. *)

None == <<>>
Some(v) == <<v>>

ONLINE_THRESHOLD_MINUTES == 5

\* the clock is followed until a minute past the online threshold
MaxTime == ONLINE_THRESHOLD_MINUTES + 1

\* where the server processes run side by side the clock is followed over
\* its first step
RaceMaxTime == ONLINE_THRESHOLD_MINUTES - 1

\* the default page size of list_agents
DefaultLimit == 50

\* display names of the cards registered
Names == { <<"A">>, <<"A", "_", "1">>, <<"a", " ", "1">> }

\* AgentSkill, main.py 44-49; description and examples are not read by the
\* operations modelled
AgentSkill(id, n, tags) == [id |-> id, name |-> n, tags |-> tags]

\* AgentCapabilities, main.py 52-54
AgentCapabilities(streaming, pushNotifications) ==
    [streaming |-> streaming, pushNotifications |-> pushNotifications]

\* the description of a card that gives nothing to search for
PlainDescription == <<"d", "e", "s", "c", "r", "i", "p", "t", "i", "o", "n">>

\* an agent card as parsed, main.py 57-65: capabilities defaults to None and
\* skills to the empty list; url, version and the modes are not read by the
\* operations modelled
AgentCard(n) ==
    [name |-> n, description |-> PlainDescription, capabilities |-> None,
     skills |-> <<>>]

Cards == { AgentCard(n) : n \in Names }

\* the cards registered where the heartbeats are followed
LiveCards == { AgentCard(<<"A">>), AgentCard(<<"a", " ", "1">>) }

-----------------------------------------------------------------------------
(* Identity assignment: register_agent, main.py 189-197. *)

UpperCase == <<"A", "B", "C", "D", "E", "F", "G", "H", "I", "J", "K", "L", "M",
               "N", "O", "P", "Q", "R", "S", "T", "U", "V", "W", "X", "Y", "Z">>

LowerCase == <<"a", "b", "c", "d", "e", "f", "g", "h", "i", "j", "k", "l", "m",
               "n", "o", "p", "q", "r", "s", "t", "u", "v", "w", "x", "y", "z">>

\* the lower-case letter of each upper-case letter
LowerOf ==
    [c \in { UpperCase[i] : i \in DOMAIN UpperCase } |->
        LowerCase[CHOOSE i \in DOMAIN UpperCase : UpperCase[i] = c]]

\* str.lower on one character
LowerChar(c) == IF c \in DOMAIN LowerOf THEN LowerOf[c] ELSE c

\* str.lower
Lower(s) == [i \in 1..Len(s) |-> LowerChar(s[i])]

\* a slug that keeps the underscores
SlugifySpacesOnly(name) ==
    [i \in 1..Len(name) |->
        IF name[i] = " " THEN "-" ELSE LowerChar(name[i])]

\* name.lower().replace(" ", "-").replace("_", "-")
Slugify(name) ==
    LET lowered == [i \in 1..Len(name) |-> LowerChar(name[i])]
        spaces  == [i \in 1..Len(name) |->
                       IF lowered[i] = " " THEN "-" ELSE lowered[i]]
    IN  [i \in 1..Len(name) |-> IF spaces[i] = "_" THEN "-" ELSE spaces[i]]

Digit(d) == <<"0", "1", "2", "3", "4", "5", "6", "7", "8", "9">>[d + 1]

RECURSIVE IntStr(_)
\* str(n) for n >= 0
IntStr(n) == IF n < 10 THEN <<Digit(n)>>
             ELSE Append(IntStr(n \div 10), Digit(n % 10))

\* f"{base_id}-{counter}"
Suffixed(base_id, counter) == base_id \o <<"-">> \o IntStr(counter)

\* a probe that tries the first suffix without looking it up
ProbeOnce(ids, base_id, agent_id, counter) ==
    IF agent_id \in ids THEN Suffixed(base_id, counter) ELSE agent_id

RECURSIVE Probe(_, _, _, _)
\* the while loop of main.py 195-197 over the identifiers `ids` of the table
Probe(ids, base_id, agent_id, counter) ==
    IF agent_id \in ids
    THEN Probe(ids, base_id, Suffixed(base_id, counter), counter + 1)
    ELSE agent_id

\* a probe whose counter starts at 0
AssignIdFromZero(ids, name) == Probe(ids, Slugify(name), Slugify(name), 0)

\* the identifier register_agent assigns to `name` when the table holds `ids`
AssignId(ids, name) == Probe(ids, Slugify(name), Slugify(name), 1)

-----------------------------------------------------------------------------
(* Heartbeat tokens and the Authorization header. *)

TokenAtoms == <<"t1", "t2", "t3", "t4", "t5", "t6", "t7", "t8">>

\* a generator that returns the same token at every call
TokenOfFixed(n) == <<TokenAtoms[1]>>

\* secrets.token_urlsafe(32): the n-th token issued, an opaque chunk of text
\* that no earlier call returned
TokenOf(n) == <<TokenAtoms[n]>>

Bearer == "Bearer "

\* Authorization headers a caller may send when the tokens `tokens` are in
\* circulation: none, the empty string, and texts without and with a token
HeadersOver(tokens) ==
    {None, Some(<<>>), Some(<<Bearer>>), Some(<<" ">>)} \cup
    UNION { { Some(<<Bearer>> \o t), Some(t), Some(<<" ">> \o t \o <<" ">>),
              Some(t \o <<Bearer>>) } : t \in tokens }

RECURSIVE LStrip(_)
LStrip(s) == IF s # <<>> /\ Head(s) = " " THEN LStrip(Tail(s)) ELSE s

RECURSIVE RStrip(_)
RStrip(s) == IF s # <<>> /\ s[Len(s)] = " "
             THEN RStrip(SubSeq(s, 1, Len(s) - 1)) ELSE s

\* authorization.replace("Bearer ", "").strip()
ExtractToken(h) == RStrip(LStrip(SelectSeq(h, LAMBDA a : a # Bearer)))

\* `not authorization`: the header is absent or the empty string
HeaderMissing(authorization) == authorization = None \/ authorization[1] = <<>>

-----------------------------------------------------------------------------
(* Heartbeat requests: HeartbeatRequest, main.py 91-94.                    *)
(* A field of the body is omitted (None), or given as null (Some(None))    *)
(* or as a value (Some(Some(v))).                                          *)

Body(st, ld, msg) == [status |-> st, load |-> ld, message |-> msg]

Bodies ==
    { Body(None, None, None),
      Body(Some(None), Some(Some(0)), None),
      Body(Some(Some("busy")), Some(Some(0)), Some(Some(""))),
      Body(Some(Some("offline")), Some(None), Some(Some("m"))),
      Body(None, Some(Some(1)), None) }

\* the bodies sent where the server processes run side by side
RaceBodies ==
    { Body(None, None, None),
      Body(Some(Some("busy")), Some(Some(0)), Some(Some(""))),
      Body(Some(Some("offline")), Some(None), Some(Some("m"))) }

\* the parsed request: an omitted status defaults to "online", an omitted
\* load or message to None
HeartbeatRequest(body) ==
    [status  |-> IF body.status = None THEN Some("online") ELSE body.status[1],
     load    |-> IF body.load = None THEN None ELSE body.load[1],
     message |-> IF body.message = None THEN None ELSE body.message[1]]

\* request.status or "online"
StatusOrOnline(st) == IF st = None THEN "online" ELSE st[1]

\* a heartbeat that assigns load and message whether given or not
HeartbeatUpdateOverwrites(agent, request, now) ==
    [agent EXCEPT
        !.last_seen = Some(now),
        !.status = StatusOrOnline(request.status),
        !.load = request.load,
        !.status_message = request.message]

\* main.py 389-397: the attributes a heartbeat assigns to the loaded row
HeartbeatUpdate(agent, request, now) ==
    [agent EXCEPT
        !.last_seen = Some(now),
        !.status = StatusOrOnline(request.status),
        !.load = IF request.load # None THEN request.load ELSE @,
        !.status_message = IF request.message # None THEN request.message ELSE @]

-----------------------------------------------------------------------------
(* Liveness: is_agent_online, main.py 121-126, and the filters of          *)
(* list_agents, main.py 239-247.                                           *)

\* the threshold included
is_agent_online_inclusive(agent, now) ==
    IF agent.last_seen = None THEN FALSE
    ELSE agent.last_seen[1] >= now - ONLINE_THRESHOLD_MINUTES

\* last_seen > utcnow() - timedelta(minutes=ONLINE_THRESHOLD_MINUTES)
is_agent_online(agent, now) ==
    IF agent.last_seen = None THEN FALSE
    ELSE agent.last_seen[1] > now - ONLINE_THRESHOLD_MINUTES

\* AgentModel.last_seen > threshold (a NULL last_seen compares as unknown)
SeenAfter(agent, threshold) ==
    agent.last_seen # None /\ agent.last_seen[1] > threshold

\* the offline filter without its NULL branch
NotSeenAfterNoNull(agent, threshold) ==
    agent.last_seen # None /\ agent.last_seen[1] <= threshold

\* (AgentModel.last_seen == None) | (AgentModel.last_seen <= threshold)
NotSeenAfter(agent, threshold) ==
    agent.last_seen = None \/ agent.last_seen[1] <= threshold

\* the rows list_agents selects, by identifier
ListFilter(rows, now, online, status) ==
    LET threshold == now - ONLINE_THRESHOLD_MINUTES
        byOnline ==
            IF online = None THEN DOMAIN rows
            ELSE IF online[1]
                 THEN { i \in DOMAIN rows : SeenAfter(rows[i], threshold) }
                 ELSE { i \in DOMAIN rows : NotSeenAfter(rows[i], threshold) }
    IN  IF status # None /\ status[1] # ""
        THEN { i \in byOnline : rows[i].status = status[1] }
        ELSE byOnline

\* a response that carries every column of the row
agent_model_to_response_all_columns(agent, now) ==
    [id              |-> agent.id,
     card            |-> agent.card_json,
     registered_at   |-> agent.registered_at,
     last_seen       |-> agent.last_seen,
     verified        |-> agent.verified,
     heartbeat_token |-> agent.heartbeat_token,
     state           |-> [status  |-> agent.status,
                          load    |-> agent.load,
                          message |-> agent.status_message,
                          online  |-> is_agent_online(agent, now)]]

\* agent_model_to_response, main.py 129-148
agent_model_to_response(agent, now) ==
    [id            |-> agent.id,
     card          |-> agent.card_json,
     registered_at |-> agent.registered_at,
     last_seen     |-> agent.last_seen,
     verified      |-> agent.verified,
     state         |-> [status  |-> agent.status,
                        load    |-> agent.load,
                        message |-> agent.status_message,
                        online  |-> is_agent_online(agent, now)]]

-----------------------------------------------------------------------------
(* Responses, and what a handler does: its response and the table after it. *)

HTTPError(code, detail) == [code |-> code, body |-> [detail |-> detail]]

\* an exception no handler catches: the caller gets 500
ServerError(exception) == HTTPError(500, exception)

OK(body) == [code |-> 200, body |-> body]

Result(response, rows) == [resp |-> response, rows |-> rows]

\* db.add(agent); db.commit()
Insert(rows, agent) ==
    [i \in DOMAIN rows \cup {agent.id} |->
        IF i = agent.id THEN agent ELSE rows[i]]

\* a deletion that empties the table
RemoveAll(rows, agent_id) == [i \in {} |-> rows[i]]

\* db.delete(agent); db.commit()
Remove(rows, agent_id) == [i \in DOMAIN rows \ {agent_id} |-> rows[i]]

\* request.card.model_dump(mode='json'), main.py 200: a dict with a key for
\* every field of the model, a field left at None dumped as null (None here)
\* and a nested model as a dict of its own
model_dump(card) ==
    [name         |-> card.name,
     description  |-> card.description,
     capabilities |-> IF card.capabilities = None THEN None
                      ELSE Some([k \in DOMAIN card.capabilities[1] |->
                                    card.capabilities[1][k]]),
     skills       |-> [i \in DOMAIN card.skills |->
                         [k \in DOMAIN card.skills[i] |-> card.skills[i][k]]]]

\* a row that counts the registration as the first heartbeat
NewAgentSeen(agent_id, card, now, heartbeat_token) ==
    [id              |-> agent_id,
     name            |-> card.name,
     description     |-> card.description,
     card_json       |-> model_dump(card),
     registered_at   |-> now,
     last_seen       |-> Some(now),
     verified        |-> FALSE,
     heartbeat_token |-> heartbeat_token,
     status          |-> "online",
     load            |-> None,
     status_message  |-> None]

\* the row register_agent builds, main.py 205-215
NewAgent(agent_id, card, now, heartbeat_token) ==
    [id              |-> agent_id,
     name            |-> card.name,
     description     |-> card.description,
     card_json       |-> model_dump(card),
     registered_at   |-> now,
     last_seen       |-> None,
     verified        |-> FALSE,
     heartbeat_token |-> heartbeat_token,
     status          |-> "offline",
     load            |-> None,
     status_message  |-> None]

\* main.py 220-225
RegisterResponse(agent_id, card, heartbeat_token) ==
    OK([success |-> TRUE, agent_id |-> agent_id, name |-> card.name,
        heartbeat_token |-> heartbeat_token])

\* POST /agents run without interruption on the table `rows`
RegisterResult(rows, card, now, heartbeat_token) ==
    LET agent_id == AssignId(DOMAIN rows, card.name)
    IN  Result(RegisterResponse(agent_id, card, heartbeat_token),
               Insert(rows, NewAgent(agent_id, card, now, heartbeat_token)))

\* a check that takes any token
HeartbeatRejectAnyToken(rows, agent_id, authorization) ==
    IF agent_id \notin DOMAIN rows
    THEN Some(HTTPError(404, "Agent not found"))
    ELSE IF HeaderMissing(authorization)
    THEN Some(HTTPError(401, "Authorization header required"))
    ELSE IF ExtractToken(authorization[1]) = <<>>
    THEN Some(HTTPError(403, "Invalid heartbeat token"))
    ELSE None

\* a check that answers a missing header as it answers a wrong token
HeartbeatRejectUniform(rows, agent_id, authorization) ==
    IF agent_id \notin DOMAIN rows
    THEN Some(HTTPError(404, "Agent not found"))
    ELSE IF HeaderMissing(authorization)
            \/ ExtractToken(authorization[1]) = <<>>
            \/ ExtractToken(authorization[1]) # rows[agent_id].heartbeat_token
    THEN Some(HTTPError(403, "Invalid heartbeat token"))
    ELSE None

\* main.py 375-386: the error a heartbeat is refused with, None when the
\* record exists and the header carries its token
HeartbeatReject(rows, agent_id, authorization) ==
    IF agent_id \notin DOMAIN rows
    THEN Some(HTTPError(404, "Agent not found"))
    ELSE IF HeaderMissing(authorization)
    THEN Some(HTTPError(401, "Authorization header required"))
    ELSE IF ExtractToken(authorization[1]) = <<>>
            \/ ExtractToken(authorization[1]) # rows[agent_id].heartbeat_token
    THEN Some(HTTPError(403, "Invalid heartbeat token"))
    ELSE None

\* main.py 402-407
HeartbeatResponse(agent_id, agent) ==
    OK([success |-> TRUE, agent_id |-> agent_id,
        last_seen |-> agent.last_seen[1], status |-> agent.status])

\* POST /agents/{agent_id}/heartbeat run without interruption
HeartbeatResult(rows, agent_id, body, authorization, now) ==
    LET refused == HeartbeatReject(rows, agent_id, authorization) IN
    IF refused # None
    THEN Result(refused[1], rows)
    ELSE LET agent == HeartbeatUpdate(rows[agent_id],
                                      HeartbeatRequest(body), now)
         IN  Result(HeartbeatResponse(agent_id, agent),
                    [rows EXCEPT ![agent_id] = agent])

\* DELETE /agents/{agent_id} run without interruption
DeleteResult(rows, agent_id) ==
    IF agent_id \notin DOMAIN rows
    THEN Result(HTTPError(404, "Agent not found"), rows)
    ELSE Result(OK([success |-> TRUE, agent_id |-> agent_id]),
                Remove(rows, agent_id))

\* what GET /agents answers when the filter reads the clock at `now` and the
\* rows are annotated at `later`; a page is a set, the order being the store's
ListResult(rows, now, later, limit, offset, online, status) ==
    LET ids == ListFilter(rows, now, online, status)
    IN  OK([total  |-> Cardinality(ids),
            agents |-> IF offset = 0 /\ limit >= Cardinality(ids)
                       THEN { agent_model_to_response(rows[i], later) : i \in ids }
                       ELSE {},
            limit |-> limit, offset |-> offset,
            filters |-> [online |-> online, status |-> status]])

\* GET /agents/{agent_id}, main.py 351-357: the handler writes nothing
GetResult(rows, agent_id, now) ==
    IF agent_id \notin DOMAIN rows
    THEN Result(HTTPError(404, "Agent not found"), rows)
    ELSE Result(OK(agent_model_to_response(rows[agent_id], now)), rows)

-----------------------------------------------------------------------------
(* Search: search_agents, main.py 268-348. *)

\* Python's `sub in text`
Contains(text, sub) ==
    \E i \in 0..(Len(text) - Len(sub)) : SubSeq(text, i + 1, i + Len(sub)) = sub

RECURSIVE Like(_, _)
\* SQL's text LIKE pattern: % stands for any run of characters, _ for any one
Like(text, pattern) ==
    IF pattern = <<>> THEN text = <<>>
    ELSE IF Head(pattern) = "%"
    THEN Like(text, Tail(pattern))
            \/ (text # <<>> /\ Like(Tail(text), pattern))
    ELSE IF Head(pattern) = "_"
    THEN text # <<>> /\ Like(Tail(text), Tail(pattern))
    ELSE /\ text # <<>>
         /\ Head(text) = Head(pattern)
         /\ Like(Tail(text), Tail(pattern))

\* column.ilike(pattern): lower(column) LIKE lower(pattern)
ILike(column, pattern) == Like(Lower(column), Lower(pattern))

\* a query parameter that is given and not the empty string (`if q:`)
Truthy(param) == param # None /\ param[1] # <<>>

\* main.py 282-287
QMatch(agent, q) ==
    LET pattern == <<"%">> \o Lower(q) \o <<"%">>
    IN  ILike(agent.name, pattern) \/ ILike(agent.description, pattern)

\* the rows the query of search_agents selects, main.py 279-303
SearchQuery(rows, now, q, online, status) ==
    LET threshold == now - ONLINE_THRESHOLD_MINUTES
    IN  { i \in DOMAIN rows :
            /\ Truthy(q) => QMatch(rows[i], q[1])
            /\ online # None =>
                  IF online[1] THEN SeenAfter(rows[i], threshold)
                  ELSE NotSeenAfter(rows[i], threshold)
            /\ (status # None /\ status[1] # "") => rows[i].status = status[1] }

\* main.py 310-317
SkillMatch(card, skill) ==
    \E n \in DOMAIN card.skills :
        \/ Contains(Lower(card.skills[n].id), Lower(skill))
        \/ Contains(Lower(card.skills[n].name), Lower(skill))

\* main.py 320-327
TagMatch(card, tag) ==
    \E n \in DOMAIN card.skills :
        \E t \in DOMAIN card.skills[n].tags :
            Contains(Lower(card.skills[n].tags[t]), Lower(tag))

\* the rows that get as far as the capability filter, main.py 306-330
ReachCapability(rows, ids, skill, tag) ==
    { i \in ids :
        /\ Truthy(skill) => SkillMatch(rows[i].card_json, skill[1])
        /\ Truthy(tag) => TagMatch(rows[i].card_json, tag[1]) }

\* caps.get(capability) on the dict of a card that has capabilities
CapsGet(caps, capability) ==
    IF capability \in DOMAIN caps THEN caps[capability] ELSE FALSE

\* GET /agents/search when the query reads the clock at `now` and the results
\* are annotated at `later`.  card.get('capabilities', {}) is the value under
\* the key, which model_dump always writes: null for a card without
\* capabilities, and null has no .get
SearchResult(rows, now, later, skill, tag, q, capability, online, status) ==
    LET reach == ReachCapability(rows, SearchQuery(rows, now, q, online, status),
                                 skill, tag)
        checked == capability # None /\ capability[1] # ""
        kept == IF checked
                THEN { i \in reach :
                         /\ rows[i].card_json.capabilities # None
                         /\ CapsGet(rows[i].card_json.capabilities[1],
                                    capability[1]) }
                ELSE reach
    IN  IF checked /\ \E i \in reach : rows[i].card_json.capabilities = None
        THEN ServerError("AttributeError")
        ELSE OK([results |-> { agent_model_to_response(rows[i], later) :
                                 i \in kept },
                 count   |-> Cardinality(kept),
                 filters |-> [skill |-> skill, tag |-> tag, q |-> q,
                              capability |-> capability, online |-> online,
                              status |-> status]])

-----------------------------------------------------------------------------
(* The validator: validator.py 14-141. *)

\* str.strip
Strip(s) == RStrip(LStrip(s))

NameMinLength == 2
NameMaxLength == 100
DescriptionMinLength == 10
DescriptionMaxLength == 1000

\* what a field validator gives: the value to keep, or the message it raises
Valid(v) == [ok |-> TRUE, value |-> v]

Invalid(msg) == [ok |-> FALSE, msg |-> msg]

\* AgentCard.name_must_be_valid, validator.py 58-65
name_must_be_valid(v) ==
    IF v = <<>> \/ Len(Strip(v)) < NameMinLength
    THEN Invalid("Name must be at least 2 characters")
    ELSE IF Len(v) > NameMaxLength
    THEN Invalid("Name must be less than 100 characters")
    ELSE Valid(Strip(v))

\* AgentCard.description_must_be_valid, validator.py 67-74
description_must_be_valid(v) ==
    IF v = <<>> \/ Len(Strip(v)) < DescriptionMinLength
    THEN Invalid("Description must be at least 10 characters")
    ELSE IF Len(v) > DescriptionMaxLength
    THEN Invalid("Description must be less than 1000 characters")
    ELSE Valid(Strip(v))

\* AgentSkill.id_must_be_valid, validator.py 22-29
id_must_be_valid(v) ==
    IF v = <<>> \/ Strip(v) = <<>>
    THEN Invalid("Skill id cannot be empty")
    ELSE IF \E i \in DOMAIN v : v[i] = " "
    THEN Invalid("Skill id should not contain spaces")
    ELSE Valid(v)

\* one entry of ValidationError.errors(): the path of the field and the message
FieldError(path, msg) == [loc |-> path, msg |-> msg]

RECURSIVE SkillErrors(_, _)
\* the errors of the skills from the n-th on, in the order of the list
SkillErrors(skills, n) ==
    IF n > Len(skills) THEN <<>>
    ELSE LET checked == id_must_be_valid(skills[n].id)
         IN  (IF checked.ok THEN <<>>
              ELSE <<FieldError(<<"skills">> \o IntStr(n - 1) \o <<"id">>,
                                checked.msg)>>)
             \o SkillErrors(skills, n + 1)

\* ValidationResult, validator.py 77-82
ValidationResult(valid, errors, warnings, card) ==
    [valid |-> valid, errors |-> errors, warnings |-> warnings, card |-> card]

\* validate_agent_card, validator.py 85-141: every failing field is reported;
\* of the warnings, the one about a card without skills (the others are about
\* url, version and the descriptions and examples of skills)
ValidateResult(card) ==
    LET name == name_must_be_valid(card.name)
        description == description_must_be_valid(card.description)
        errors ==
            (IF name.ok THEN <<>> ELSE <<FieldError(<<"name">>, name.msg)>>)
            \o (IF description.ok THEN <<>>
                ELSE <<FieldError(<<"description">>, description.msg)>>)
            \o SkillErrors(card.skills, 1)
    IN  IF errors = <<>>
        THEN ValidationResult(TRUE, <<>>,
                 IF card.skills = <<>> THEN <<"Agent has no skills defined">>
                 ELSE <<>>,
                 Some([card EXCEPT !.name = name.value,
                                   !.description = description.value]))
        ELSE ValidationResult(FALSE, errors, <<>>, None)

-----------------------------------------------------------------------------
(* The requests of a state. *)

\* an identifier no registration of the model assigns
AbsentId == <<"z">>

\* identifiers a request may name
RequestIds == DOMAIN store \cup {AbsentId}

\* tokens issued so far
IssuedTokens == { TokenOf(i) : i \in 1..issued }

\* the headers the heartbeats of a behaviour carry: none, one without a token,
\* and the usual form with the token of a record of the table
SentHeaders ==
    {None, Some(<<Bearer>>)} \cup
    { Some(<<Bearer>> \o store[i].heartbeat_token) : i \in DOMAIN store }

-----------------------------------------------------------------------------
(* The state after startup: an empty table. *)

\* server processes sharing the table (uvicorn workers on one database)
Workers == {1, 2}

NoResponse == [code |-> 0, body |-> [detail |-> "none"]]

NoCall == [call |-> [op |-> "none"]]

\* validate_agent_card has not been called
NoCard == [name |-> <<>>]

NoResult == ValidationResult(FALSE, <<>>, <<>>, None)

Init ==
    /\ store = <<>>
    /\ clock = 0
    /\ issued = 0
    /\ beats = 0
    /\ pc = [w \in Workers |-> "idle"]
    /\ loc = [w \in Workers |-> NoCall]
    /\ wresp = [w \in Workers |-> NoResponse]
    /\ started = 0
    /\ base = <<>>
    /\ ran = <<>>
    /\ card_data = NoCard
    /\ result = NoResult

-----------------------------------------------------------------------------
(* One server process: a handler has no await in it, so it runs from its   *)
(* first line to its last without another request in between.              *)

register_agent(card, cap) ==
    /\ issued + beats < cap
    /\ store' = RegisterResult(store, card, clock, TokenOf(issued + 1)).rows
    /\ issued' = issued + 1
    /\ UNCHANGED <<clock, beats, raceVars, validatorVars>>

agent_heartbeat(agent_id, body, authorization) ==
    LET r == HeartbeatResult(store, agent_id, body, authorization, clock)
    IN  /\ r.resp.code = 200 => issued + beats < MaxOps
        /\ store' = r.rows
        /\ beats' = IF r.resp.code = 200 THEN beats + 1 ELSE beats
        /\ UNCHANGED <<clock, issued, raceVars, validatorVars>>

delete_agent(agent_id) ==
    /\ store' = DeleteResult(store, agent_id).rows
    /\ UNCHANGED <<clock, issued, beats, raceVars, validatorVars>>

\* time passing with a sweep that marks the records gone stale as offline
TickResetsStale(cap) ==
    /\ clock < cap
    /\ clock' = clock + (IF clock = 0 THEN ONLINE_THRESHOLD_MINUTES - 1 ELSE 1)
    /\ store' = [i \in DOMAIN store |->
                   IF is_agent_online(store[i], clock') THEN store[i]
                   ELSE [store[i] EXCEPT !.status = "offline"]]
    /\ UNCHANGED <<issued, beats, raceVars, validatorVars>>

\* time passing with a sweep that removes the records gone stale
TickExpiresStale(cap) ==
    /\ clock < cap
    /\ clock' = clock + (IF clock = 0 THEN ONLINE_THRESHOLD_MINUTES - 1 ELSE 1)
    /\ store' = [i \in { j \in DOMAIN store :
                          store[j].last_seen = None
                              \/ is_agent_online(store[j], clock') } |->
                   store[i]]
    /\ UNCHANGED <<issued, beats, raceVars, validatorVars>>

\* time passes between two requests: the first one arrives a minute short of
\* the online threshold after startup, the later ones a minute apart
Tick(cap) ==
    /\ clock < cap
    /\ clock' = clock + (IF clock = 0 THEN ONLINE_THRESHOLD_MINUTES - 1 ELSE 1)
    /\ UNCHANGED <<store, issued, beats, raceVars, validatorVars>>

Next ==
    \/ \E card \in LiveCards : register_agent(card, MaxOps)
    \/ \E agent_id \in RequestIds, body \in Bodies, authorization \in SentHeaders :
          agent_heartbeat(agent_id, body, authorization)
    \/ \E agent_id \in RequestIds : delete_agent(agent_id)
    \/ Tick(MaxTime)

Spec == Init /\ [][Next]_vars

\* registrations and deletions alone, all names
NextIds ==
    \/ \E card \in Cards : register_agent(card, MaxIdRegs)
    \/ \E agent_id \in RequestIds : delete_agent(agent_id)

SpecIds == Init /\ [][NextIds]_vars

-----------------------------------------------------------------------------
(* Every endpoint of the registry, one server process. *)

\* RegisterRequest, main.py 79-80
RegisterRequest(card) == [card |-> card]

\* a card the validator accepts, with a name it trims
PaddedCard == AgentCard(<<"a", " ", "1", " ">>)

\* the heartbeats sent where every endpoint is followed
RegistryBodies ==
    { Body(None, None, None),
      Body(Some(Some("busy")), Some(Some(0)), Some(Some(""))) }

\* the filters of the listings sent
OnlineFilters == {None, Some(TRUE), Some(FALSE)}

StatusFilters == {None, Some("busy")}

\* GET /agents/{agent_id}
get_agent(agent_id) ==
    /\ store' = GetResult(store, agent_id, clock).rows
    /\ UNCHANGED <<clock, issued, beats, raceVars, validatorVars>>

\* GET /agents: a query, its count and its page; nothing is written
list_agents(limit, offset, online, status) ==
    /\ ListResult(store, clock, clock, limit, offset, online, status).code = 200
    /\ UNCHANGED <<store, clock, issued, beats, raceVars, validatorVars>>

\* GET /agents/search: a query and a loop over its rows; nothing is written
search_agents(skill, tag, q, capability, online, status) ==
    /\ SearchResult(store, clock, clock, skill, tag, q, capability, online,
                    status).code \in {200, 500}
    /\ UNCHANGED <<store, clock, issued, beats, raceVars, validatorVars>>

\* POST /validate, main.py 421-426
validate_card(request) ==
    /\ card_data' = model_dump(request.card)
    /\ result' = ValidateResult(card_data')
    /\ UNCHANGED <<store, clock, issued, beats, raceVars>>

NextRegistry ==
    \/ \E card \in LiveCards : register_agent(card, MaxOps)
    \/ \E agent_id \in RequestIds, body \in RegistryBodies,
          authorization \in SentHeaders :
          agent_heartbeat(agent_id, body, authorization)
    \/ \E agent_id \in RequestIds : delete_agent(agent_id)
    \/ \E agent_id \in RequestIds : get_agent(agent_id)
    \/ \E online \in OnlineFilters, status \in StatusFilters :
          list_agents(DefaultLimit, 0, online, status)
    \/ \E q \in {None, Some(<<"a">>)}, capability \in {None, Some("streaming")} :
          search_agents(None, None, q, capability, None, None)
    \/ validate_card(RegisterRequest(PaddedCard))
    \/ Tick(MaxTime)

SpecRegistry == Init /\ [][NextRegistry]_vars

-----------------------------------------------------------------------------
(* Searching: cards with skills, tags and capabilities, registered, kept     *)
(* alive by heartbeats and searched.                                         *)

\* a card with a tagged skill that streams
VisionCard ==
    [AgentCard(<<"V", "i", "s">>) EXCEPT
        !.capabilities = Some(AgentCapabilities(TRUE, FALSE)),
        !.skills = <<AgentSkill(<<"c", "v">>, <<"S", "e", "e">>,
                                <<<<"C", "-", "V", "i", "s">>>>)>>]

\* a card without capabilities and without skills
PlainCard == AgentCard(<<"a", "b">>)

\* a card whose skill has no tags and is named as the first card is
QuietCard ==
    [AgentCard(<<"a", "_", "b">>) EXCEPT
        !.description = <<"q", "u", "i", "e", "t", " ", "a", "g", "e", "n", "t">>,
        !.capabilities = Some(AgentCapabilities(FALSE, TRUE)),
        !.skills = <<AgentSkill(<<"x", "1">>, <<"V", "i", "s">>, <<>>)>>]

SearchCards == {VisionCard, PlainCard, QuietCard}

\* the texts searched for
SkillParams == {None, Some(<<"V", "I", "S">>), Some(<<"x">>)}

TagParams == {None, Some(<<"v", "i", "s">>)}

QParams == {None, Some(<<"V", "i", "s">>), Some(<<"Q", "U", "I">>), Some(<<"_">>)}

CapabilityParams ==
    {None, Some("streaming"), Some("pushNotifications"), Some("other")}

NextSearch ==
    \/ \E card \in SearchCards : register_agent(card, MaxOps)
    \/ \E agent_id \in RequestIds, body \in RegistryBodies,
          authorization \in SentHeaders :
          agent_heartbeat(agent_id, body, authorization)
    \/ \E skill \in SkillParams, q \in QParams,
          capability \in {None, Some("streaming")} :
          search_agents(skill, None, q, capability, None, None)
    \/ Tick(MaxTime)

SpecSearch == Init /\ [][NextSearch]_vars

-----------------------------------------------------------------------------
(* Validating: cards with names around the two limits of the validator,     *)
(* with and without spaces around them.                                     *)

\* spaces on either side of a name
MaxPad == 2

Spaces(n) == [i \in 1..n |-> " "]

Letters(n) == [i \in 1..n |-> "n"]

\* the lengths of the names without their padding: around the lower limit,
\* and from where the padding reaches the upper limit to one past it
CoreLengths ==
    0..NameMinLength \cup (NameMaxLength - MaxPad)..(NameMaxLength + 1)

ValidatedNames ==
    { Spaces(l) \o Letters(m) \o Spaces(t) :
        l \in 0..MaxPad, m \in CoreLengths, t \in 0..MaxPad }

\* the cards validated: each name, with a description the validator takes or
\* refuses, without skills or with a skill whose id it refuses
ValidatedCards ==
    { [AgentCard(n) EXCEPT !.description = d, !.skills = sk] :
        n \in ValidatedNames,
        d \in {PlainDescription, <<"d", " ">>},
        sk \in {<<>>, <<AgentSkill(<<"x", " ", "y">>, <<"S">>, <<>>)>>} }

NextValidate ==
    \E card \in ValidatedCards : validate_card(RegisterRequest(card))

SpecValidate == Init /\ [][NextValidate]_vars

-----------------------------------------------------------------------------
(* Several server processes on one database.  Each statement a handler     *)
(* sends (a query, the flush of db.commit(), db.refresh) is one step and   *)
(* sees what the other processes have committed; the statements of two     *)
(* handlers interleave.                                                    *)

Quiet == \A w \in Workers : pc[w] = "idle"

\* a server process takes a request
Take(w) ==
    /\ pc[w] = "idle"
    /\ started < MaxRaceOps
    /\ started' = started + 1
    /\ base' = IF Quiet THEN store ELSE base

RanAtTake == IF Quiet THEN <<>> ELSE ran

\* the handler of w returns `response`
Return(w, response) ==
    /\ pc' = [pc EXCEPT ![w] = "idle"]
    /\ wresp' = [wresp EXCEPT ![w] = response]

\* the flush of db.commit() on a loaded row: UPDATE ... WHERE id = the row's,
\* setting the attributes whose assigned value differs from the loaded one
Flush(loaded, assigned, current) ==
    [current EXCEPT
        !.last_seen = IF assigned.last_seen # loaded.last_seen
                      THEN assigned.last_seen ELSE @,
        !.status = IF assigned.status # loaded.status
                   THEN assigned.status ELSE @,
        !.load = IF assigned.load # loaded.load THEN assigned.load ELSE @,
        !.status_message = IF assigned.status_message # loaded.status_message
                           THEN assigned.status_message ELSE @]

\* main.py 375-397: the row is loaded, the token checked, the clock read and
\* the attributes assigned
hb_begin(w, agent_id, body, authorization) ==
    LET refused == HeartbeatReject(store, agent_id, authorization)
        call == [op |-> "heartbeat", agent_id |-> agent_id, body |-> body,
                 authorization |-> authorization, now |-> clock]
    IN  /\ Take(w)
        /\ IF refused # None
           THEN /\ Return(w, refused[1])
                /\ ran' = Append(RanAtTake, call)
                /\ UNCHANGED loc
           ELSE /\ pc' = [pc EXCEPT ![w] = "hb_commit"]
                /\ loc' = [loc EXCEPT ![w] =
                             [call |-> call, agent |-> store[agent_id],
                              assigned |-> HeartbeatUpdate(store[agent_id],
                                              HeartbeatRequest(body), clock)]]
                /\ ran' = RanAtTake
                /\ UNCHANGED wresp
        /\ UNCHANGED <<store, clock, issued, beats,
                     validatorVars>>

\* main.py 399: db.commit()
hb_commit(w) ==
    LET l == loc[w]
        id == l.agent.id
        dirty == l.assigned # l.agent
    IN  /\ pc[w] = "hb_commit"
        /\ IF dirty /\ id \notin DOMAIN store
           THEN \* the UPDATE matches no row
                /\ Return(w, ServerError("StaleDataError"))
                /\ ran' = Append(ran, l.call)
                /\ UNCHANGED store
           ELSE /\ store' = IF dirty
                            THEN [store EXCEPT
                                    ![id] = Flush(l.agent, l.assigned, @)]
                            ELSE store
                /\ pc' = [pc EXCEPT ![w] = "hb_refresh"]
                /\ UNCHANGED <<wresp, ran>>
        /\ UNCHANGED <<clock, issued, beats, loc, started, base,
                     validatorVars>>

\* main.py 400-407: db.refresh(agent) and the response
hb_refresh(w) ==
    LET l == loc[w]
        id == l.agent.id
    IN  /\ pc[w] = "hb_refresh"
        /\ Return(w, IF id \notin DOMAIN store
                     THEN ServerError("InvalidRequestError")
                     ELSE IF store[id].last_seen = None
                     THEN ServerError("ResponseValidationError")
                     ELSE HeartbeatResponse(l.call.agent_id, store[id]))
        /\ ran' = Append(ran, l.call)
        /\ UNCHANGED <<store, clock, issued, beats, loc, started, base,
                     validatorVars>>

\* main.py 413-415
del_begin(w, agent_id) ==
    LET call == [op |-> "delete", agent_id |-> agent_id]
    IN  /\ Take(w)
        /\ IF agent_id \notin DOMAIN store
           THEN /\ Return(w, HTTPError(404, "Agent not found"))
                /\ ran' = Append(RanAtTake, call)
                /\ UNCHANGED loc
           ELSE /\ pc' = [pc EXCEPT ![w] = "del_commit"]
                /\ loc' = [loc EXCEPT ![w] =
                             [call |-> call, agent |-> store[agent_id]]]
                /\ ran' = RanAtTake
                /\ UNCHANGED wresp
        /\ UNCHANGED <<store, clock, issued, beats,
                     validatorVars>>

\* main.py 416-418: DELETE ... WHERE id = the row's; a DELETE that matches no
\* row is a warning, not an error
del_commit(w) ==
    LET l == loc[w]
    IN  /\ pc[w] = "del_commit"
        /\ store' = Remove(store, l.agent.id)
        /\ Return(w, OK([success |-> TRUE, agent_id |-> l.call.agent_id]))
        /\ ran' = Append(ran, l.call)
        /\ UNCHANGED <<clock, issued, beats, loc, started, base,
                     validatorVars>>

\* main.py 190-194
reg_begin(w, card) ==
    /\ Take(w)
    /\ pc' = [pc EXCEPT ![w] = "reg_probe"]
    /\ loc' = [loc EXCEPT ![w] =
                 [call |-> [op |-> "register", card |-> card],
                  base_id |-> Slugify(card.name),
                  agent_id |-> Slugify(card.name), counter |-> 1]]
    /\ ran' = RanAtTake
    /\ UNCHANGED <<store, clock, issued, beats, wresp,
                 validatorVars>>

\* main.py 195-215: one query of the while loop; when the identifier is free
\* the token is generated and the row built
reg_probe(w) ==
    LET l == loc[w]
    IN  /\ pc[w] = "reg_probe"
        /\ IF l.agent_id \in DOMAIN store
           THEN /\ loc' = [loc EXCEPT ![w] =
                             [l EXCEPT
                                !.agent_id = Suffixed(l.base_id, l.counter),
                                !.counter = l.counter + 1]]
                /\ UNCHANGED <<pc, issued>>
           ELSE /\ loc' = [loc EXCEPT ![w] =
                             [call |-> l.call,
                              agent |-> NewAgent(l.agent_id, l.call.card, clock,
                                                 TokenOf(issued + 1))]]
                /\ issued' = issued + 1
                /\ pc' = [pc EXCEPT ![w] = "reg_commit"]
        /\ UNCHANGED <<store, clock, beats, wresp, started, base, ran,
                     validatorVars>>

\* main.py 216-217: db.add(agent); db.commit(): INSERT, refused by the
\* primary key when the identifier is taken
reg_commit(w) ==
    LET l == loc[w]
    IN  /\ pc[w] = "reg_commit"
        /\ IF l.agent.id \in DOMAIN store
           THEN /\ Return(w, ServerError("IntegrityError"))
                /\ ran' = Append(ran, l.call)
                /\ UNCHANGED store
           ELSE /\ store' = Insert(store, l.agent)
                /\ pc' = [pc EXCEPT ![w] = "reg_refresh"]
                /\ UNCHANGED <<wresp, ran>>
        /\ UNCHANGED <<clock, issued, beats, loc, started, base,
                     validatorVars>>

\* main.py 218-225: db.refresh(agent) and the response
reg_refresh(w) ==
    LET l == loc[w]
    IN  /\ pc[w] = "reg_refresh"
        /\ Return(w, IF l.agent.id \notin DOMAIN store
                     THEN ServerError("InvalidRequestError")
                     ELSE RegisterResponse(l.agent.id, l.call.card,
                                           l.agent.heartbeat_token))
        /\ ran' = Append(ran, l.call)
        /\ UNCHANGED <<store, clock, issued, beats, loc, started, base,
                     validatorVars>>

NextRace ==
    \/ \E w \in Workers, card \in LiveCards : reg_begin(w, card)
    \/ \E w \in Workers : reg_probe(w)
    \/ \E w \in Workers : reg_commit(w)
    \/ \E w \in Workers : reg_refresh(w)
    \/ \E w \in Workers, agent_id \in RequestIds, body \in RaceBodies,
          authorization \in SentHeaders :
          hb_begin(w, agent_id, body, authorization)
    \/ \E w \in Workers : hb_commit(w)
    \/ \E w \in Workers : hb_refresh(w)
    \/ \E w \in Workers, agent_id \in RequestIds : del_begin(w, agent_id)
    \/ \E w \in Workers : del_commit(w)
    \/ Tick(RaceMaxTime)

SpecRace == Init /\ [][NextRace]_vars

-----------------------------------------------------------------------------
(* One server process, with the clock running while a listing or a search  *)
(* is handled: the query reads the clock for its threshold (main.py 241,   *)
(* 291), and is_agent_online reads it again when the rows are annotated    *)
(* (main.py 125, called at 257 and 335).  No other request is handled in   *)
(* between, so the rows annotated are those of the table.                  *)

\* the server process that handles the requests
Reader == CHOOSE w \in Workers : TRUE

\* main.py 237-254: the query of list_agents, its threshold read off the clock
list_query(w, limit, offset, online, status) ==
    /\ Quiet
    /\ pc' = [pc EXCEPT ![w] = "list_annotate"]
    /\ loc' = [loc EXCEPT ![w] =
                 [call |-> [op |-> "list", limit |-> limit, offset |-> offset,
                            online |-> online, status |-> status,
                            now |-> clock]]]
    /\ UNCHANGED <<store, clock, issued, beats, wresp, started, base, ran,
                   validatorVars>>

\* main.py 256-265: the rows are annotated and the response returned
list_annotate(w) ==
    LET call == loc[w].call
    IN  /\ pc[w] = "list_annotate"
        /\ Return(w, ListResult(store, call.now, clock, call.limit, call.offset,
                                call.online, call.status))
        /\ UNCHANGED <<store, clock, issued, beats, loc, started, base, ran,
                       validatorVars>>

\* main.py 279-303: the query of search_agents
search_query(w, skill, tag, q, capability, online, status) ==
    /\ Quiet
    /\ pc' = [pc EXCEPT ![w] = "search_annotate"]
    /\ loc' = [loc EXCEPT ![w] =
                 [call |-> [op |-> "search", skill |-> skill, tag |-> tag,
                            q |-> q, capability |-> capability,
                            online |-> online, status |-> status,
                            now |-> clock]]]
    /\ UNCHANGED <<store, clock, issued, beats, wresp, started, base, ran,
                   validatorVars>>

\* main.py 304-348: the loop over the rows, their annotation and the response
search_annotate(w) ==
    LET call == loc[w].call
    IN  /\ pc[w] = "search_annotate"
        /\ Return(w, SearchResult(store, call.now, clock, call.skill, call.tag,
                                  call.q, call.capability, call.online,
                                  call.status))
        /\ UNCHANGED <<store, clock, issued, beats, loc, started, base, ran,
                       validatorVars>>

\* the card registered where the clock runs during the reads
ClockCards == {AgentCard(<<"a", " ", "1">>)}

NextClock ==
    \/ \E card \in ClockCards : Quiet /\ register_agent(card, MaxOps)
    \/ \E agent_id \in RequestIds, body \in RegistryBodies,
          authorization \in SentHeaders :
          Quiet /\ agent_heartbeat(agent_id, body, authorization)
    \/ \E online \in {Some(TRUE), Some(FALSE)} :
          list_query(Reader, DefaultLimit, 0, online, None)
    \/ list_annotate(Reader)
    \/ \E online \in {Some(TRUE), Some(FALSE)} :
          search_query(Reader, None, None, None, None, online, None)
    \/ search_annotate(Reader)
    \/ Tick(MaxTime)

SpecClock == Init /\ [][NextClock]_vars

-----------------------------------------------------------------------------
(* What the claims are stated over. *)

\* a token the registry never issued
ForgedToken == <<"forged">>

\* the headers a caller may try in a state
ClaimHeaders == HeadersOver(IssuedTokens \cup {ForgedToken})

\* the headers that carry the token t
Presents(t) == HeadersOver({t}) \ HeadersOver({})

\* a field of a heartbeat body that is given and not null, and its value
Provided(field) == field # None /\ field[1] # None

Given(field) == field[1][1]

\* the times a request may arrive at from a state on
CallTimes == clock..(MaxTime + 1)

OnlineIds(now) == { i \in DOMAIN store : is_agent_online(store[i], now) }

Listed(response) == { a.id : a \in response.body.agents }

-----------------------------------------------------------------------------
(* C1 - C7: one server process (Spec, SpecIds). *)

\* C1: a heartbeat on an existing record with its token succeeds, sets
\* last_seen to the current time, status to the status given or to "online",
\* load and status_message to the values given or leaves them, and leaves
\* id, card, registered_at and heartbeat_token (and every other record) alone.
C1_HeartbeatSucceeds ==
    \A id \in DOMAIN store, body \in Bodies :
        \A authorization \in Presents(store[id].heartbeat_token) :
            LET r == HeartbeatResult(store, id, body, authorization, clock)
                old == store[id]
                new == r.rows[id]
            IN  /\ r.resp.code = 200
                /\ r.resp.body.last_seen = clock
                /\ r.resp.body.status = new.status
                /\ new.last_seen = Some(clock)
                /\ new.status = IF Provided(body.status)
                                THEN Given(body.status) ELSE "online"
                /\ new.load = IF Provided(body.load)
                              THEN Some(Given(body.load)) ELSE old.load
                /\ new.status_message = IF Provided(body.message)
                                        THEN Some(Given(body.message))
                                        ELSE old.status_message
                /\ new.id = old.id
                /\ new.card_json = old.card_json
                /\ new.registered_at = old.registered_at
                /\ new.heartbeat_token = old.heartbeat_token
                /\ DOMAIN r.rows = DOMAIN store
                /\ \A j \in DOMAIN store \ {id} : r.rows[j] = store[j]

\* a second heartbeat, later than the first, has kept the load the first set
C1_Witness ==
    \E id \in DOMAIN store :
        /\ clock > 0
        /\ store[id].last_seen = Some(clock)
        /\ store[id].status = "offline"
        /\ store[id].load = Some(0)
        /\ store[id].status_message = Some("m")

\* C2: a heartbeat without the record's token is rejected and the table after
\* it is the table before it.
C2_BadTokenRejected ==
    \A id \in DOMAIN store, body \in Bodies :
        \A authorization \in
               ClaimHeaders \ Presents(store[id].heartbeat_token) :
            LET r == HeartbeatResult(store, id, body, authorization, clock)
            IN  /\ r.resp.code \in {401, 403}
                /\ r.rows = store

\* a record that has a heartbeat behind it refuses the token of another
C2_Witness ==
    \E id \in DOMAIN store, j \in DOMAIN store :
        /\ j # id
        /\ store[id].last_seen # None
        /\ LET r == HeartbeatResult(store, id,
                       Body(Some(Some("busy")), Some(Some(0)), Some(Some(""))),
                       Some(<<Bearer>> \o store[j].heartbeat_token), clock)
           IN  r.resp.code = 403 /\ r.rows = store

\* C3 as claimed: a heartbeat with no token and one with a wrong token get the
\* same answer.
C3_SameOutcome ==
    \A id \in DOMAIN store, body \in Bodies :
        \A missing \in {None, Some(<<>>)}, wrong \in Presents(ForgedToken) :
            HeartbeatResult(store, id, body, missing, clock).resp
                = HeartbeatResult(store, id, body, wrong, clock).resp

\* C3 as amended: both are rejected and leave the table alone, a missing
\* header with 401 "Authorization header required", a wrong token with 403
\* "Invalid heartbeat token".
C3_DistinctRejections ==
    \A id \in DOMAIN store, body \in Bodies :
        /\ \A missing \in {None, Some(<<>>)} :
              HeartbeatResult(store, id, body, missing, clock)
                  = Result(HTTPError(401, "Authorization header required"),
                           store)
        /\ \A wrong \in (ClaimHeaders \ Presents(store[id].heartbeat_token))
                           \ {None, Some(<<>>)} :
              HeartbeatResult(store, id, body, wrong, clock)
                  = Result(HTTPError(403, "Invalid heartbeat token"), store)

C3_Witness ==
    \E id \in DOMAIN store :
        /\ HeartbeatResult(store, id, Body(None, None, None), None,
                           clock).resp.code = 401
        /\ HeartbeatResult(store, id, Body(None, None, None),
                           Some(<<Bearer>> \o ForgedToken), clock).resp.code = 403

\* C4 as claimed: online means last_seen present and now - last_seen <= 5.
C4_OnlineWithinFiveInclusive ==
    \A id \in DOMAIN store, now \in CallTimes :
        is_agent_online(store[id], now)
            = (/\ store[id].last_seen # None
               /\ now - store[id].last_seen[1] <= 5)

\* C4 as amended: online means last_seen present and now - last_seen < 5: true
\* right after a heartbeat, false when exactly 5 minutes have passed, false
\* for a record never seen; the annotation of a response is that flag.
C4_OnlineWithinFiveStrict ==
    \A id \in DOMAIN store, now \in CallTimes :
        LET agent == store[id]
            online == agent_model_to_response(agent, now).state.online
        IN  /\ online = is_agent_online(agent, now)
            /\ online = (/\ agent.last_seen # None
                         /\ now - agent.last_seen[1] < 5)
            /\ agent.last_seen = Some(now) => online
            /\ agent.last_seen = Some(now - 5) => ~online
            /\ agent.last_seen = None => ~online

\* exactly five minutes after a heartbeat
C4_Witness ==
    \E id \in DOMAIN store :
        /\ store[id].last_seen # None
        /\ clock - store[id].last_seen[1] = 5
        /\ ~is_agent_online(store[id], clock)

\* C5: list(online=true) returns the records online at call time,
\* list(online=false) the others, never-seen records among them; the two
\* results are disjoint and cover the table.
C5_ListPartition ==
    \A now \in CallTimes :
        LET on  == ListResult(store, now, now, DefaultLimit, 0, Some(TRUE), None)
            off == ListResult(store, now, now, DefaultLimit, 0, Some(FALSE), None)
        IN  /\ Listed(on) = OnlineIds(now)
            /\ Listed(off) = DOMAIN store \ OnlineIds(now)
            /\ on.body.total = Cardinality(OnlineIds(now))
            /\ off.body.total = Cardinality(DOMAIN store \ OnlineIds(now))
            /\ Listed(on) \cap Listed(off) = {}
            /\ Listed(on) \cup Listed(off) = DOMAIN store
            /\ \A i \in DOMAIN store :
                  store[i].last_seen = None => i \in Listed(off)
            /\ \A a \in on.body.agents \cup off.body.agents :
                  a = agent_model_to_response(store[a.id], now)

\* an online record beside one never seen, some time after startup
C5_Witness ==
    \E i \in DOMAIN store, j \in DOMAIN store :
        /\ clock > 0
        /\ is_agent_online(store[i], clock)
        /\ store[j].last_seen = None
        /\ Listed(ListResult(store, clock, clock, DefaultLimit, 0,
                             Some(FALSE), None)) = {j}

\* C6: no two records have the same id, and a register returns an id no
\* record of the table holds, adding one row and touching no other.
C6_UniqueIds ==
    /\ \A i \in DOMAIN store : store[i].id = i
    /\ \A card \in Cards :
          LET r == RegisterResult(store, card, clock, TokenOf(issued + 1))
              id == r.resp.body.agent_id
          IN  /\ r.resp.code = 200
              /\ id \notin DOMAIN store
              /\ DOMAIN r.rows = DOMAIN store \cup {id}
              /\ r.rows[id].id = id
              /\ \A j \in DOMAIN store : r.rows[j] = store[j]

\* two records of one name, one of them with a heartbeat behind it
C6_Witness ==
    \E i \in DOMAIN store, j \in DOMAIN store :
        /\ i # j
        /\ store[i].name = store[j].name
        /\ store[j].last_seen # None

\* the identifiers of three registrations of `card` in a row on `rows`
ThreeIds(rows, card) ==
    LET r1 == RegisterResult(rows, card, clock, TokenOf(issued + 1))
        r2 == RegisterResult(r1.rows, card, clock, TokenOf(issued + 2))
        r3 == RegisterResult(r2.rows, card, clock, TokenOf(issued + 3))
    IN  <<r1.resp.body.agent_id, r2.resp.body.agent_id, r3.resp.body.agent_id>>

\* C7 as claimed: wherever the base slug is unused, registering a name twice
\* gives the base slug and then base-1, and a third time base-2.
C7_SuffixesWhenBaseUnused ==
    \A card \in Cards :
        LET base_id == Slugify(card.name)
        IN  base_id \notin DOMAIN store =>
                ThreeIds(store, card)
                    = <<base_id, Suffixed(base_id, 1), Suffixed(base_id, 2)>>

\* C7 as amended: wherever the base slug and base-1 are unused, registering a
\* name twice gives the base slug and then base-1; where base-2 is unused too,
\* a third registration gives base-2.
C7_SuffixesWhenUnused ==
    \A card \in Cards :
        LET base_id == Slugify(card.name)
            ids == ThreeIds(store, card)
        IN  (base_id \notin DOMAIN store
                /\ Suffixed(base_id, 1) \notin DOMAIN store) =>
                /\ ids[1] = base_id
                /\ ids[2] = Suffixed(base_id, 1)
                /\ ids[1] # ids[2]
                /\ Suffixed(base_id, 2) \notin DOMAIN store =>
                      ids[3] = Suffixed(base_id, 2)

\* three registrations of one name, in the table with their suffixes
C7_Witness ==
    \E n \in Names :
        LET base_id == Slugify(n)
            first == base_id
            second == Suffixed(base_id, 1)
            third == Suffixed(base_id, 2)
        IN  /\ {first, second, third} \subseteq DOMAIN store
            /\ store[first].name = n
            /\ store[second].name = n
            /\ store[third].name = n
            /\ store[first].heartbeat_token = TokenOf(1)
            /\ store[second].heartbeat_token = TokenOf(2)
            /\ store[third].heartbeat_token = TokenOf(3)

-----------------------------------------------------------------------------
(* C8 - C10: several server processes (SpecRace). *)

\* C8: a registration that loses the race for an identifier is retried with
\* the next suffix; the conflict is never answered to the caller as an error.
C8_ConflictNeverSurfaced ==
    \A w \in Workers : wresp[w] # ServerError("IntegrityError")

\* C9: no step replaces the last_seen of a record by an earlier value.
C9_LastSeenMonotonic ==
    [][\A id \in DOMAIN store \cap DOMAIN store' :
          store[id].last_seen # None =>
              /\ store'[id].last_seen # None
              /\ store'[id].last_seen[1] >= store[id].last_seen[1]]_vars

\* a completed heartbeat or deletion, run alone on `rows` at the time it read
Replay(rows, call) ==
    IF call.op = "heartbeat"
    THEN HeartbeatResult(rows, call.agent_id, call.body, call.authorization,
                         call.now).rows
    ELSE DeleteResult(rows, call.agent_id).rows

\* C10: when a heartbeat has overlapped another heartbeat or a deletion of its
\* record, the table is what the two give run one after the other, in one
\* order or the other.
C10_HeartbeatAtomic ==
    (/\ Quiet
     /\ Len(ran) = 2
     /\ {ran[1].op, ran[2].op} \subseteq {"heartbeat", "delete"}
     /\ "heartbeat" \in {ran[1].op, ran[2].op}
     /\ ran[1].agent_id = ran[2].agent_id)
        => store \in { Replay(Replay(base, ran[1]), ran[2]),
                       Replay(Replay(base, ran[2]), ran[1]) }

-----------------------------------------------------------------------------
(* C11 - C20. *)

\* the step is a heartbeat on `id` that the registry accepted, and nothing else
SuccessfulHeartbeat(id) ==
    \E body \in Bodies, authorization \in SentHeaders :
        LET r == HeartbeatResult(store, id, body, authorization, clock)
        IN  r.resp.code = 200 /\ store' = r.rows /\ clock' = clock

\* C11: the stored status of a record changes only in a step that is a
\* successful heartbeat on that record: time passing, the reads, validate and
\* refused heartbeats leave it alone, and a response reports the stored status
\* whatever the age of last_seen.
C11_StatusOnlyByHeartbeat ==
    /\ [](\A id \in DOMAIN store, now \in CallTimes :
            agent_model_to_response(store[id], now).state.status
                = store[id].status)
    /\ [][\A id \in DOMAIN store \cap DOMAIN store' :
            store'[id].status # store[id].status => SuccessfulHeartbeat(id)]_vars

\* a record gone stale that still reports busy
C11_Witness ==
    \E id \in DOMAIN store :
        /\ store[id].status = "busy"
        /\ store[id].last_seen # None
        /\ ~agent_model_to_response(store[id], clock).state.online
        /\ agent_model_to_response(store[id], clock).state.status = "busy"

\* the table with the heartbeat token of every record replaced by t
Retokened(rows, t) ==
    [i \in DOMAIN rows |-> [rows[i] EXCEPT !.heartbeat_token = t]]

\* the tables that differ from the store in heartbeat tokens only
TokenVariants ==
    { Retokened(store, t) : t \in IssuedTokens \cup {ForgedToken} }

\* the headers a caller who knows the tokens in circulation sends
KnownHeaders ==
    SentHeaders \cup {Some(<<Bearer>> \o ForgedToken)}

\* list, search and getById answer the same on the store and on `other`
SameReads(other) ==
    /\ \A online \in OnlineFilters, status \in StatusFilters :
          ListResult(store, clock, clock, DefaultLimit, 0, online, status)
              = ListResult(other, clock, clock, DefaultLimit, 0, online, status)
    /\ \A q \in {None, Some(<<"a">>)}, capability \in {None, Some("streaming")} :
          SearchResult(store, clock, clock, None, None, q, capability, None, None)
              = SearchResult(other, clock, clock, None, None, q, capability,
                             None, None)
    /\ \A id \in RequestIds :
          GetResult(store, id, clock).resp = GetResult(other, id, clock).resp

\* the response of a registration carries the token of the record it creates,
\* which is the token of no other record
RegisterReturnsOwnToken ==
    \A card \in LiveCards :
        LET r == RegisterResult(store, card, clock, TokenOf(issued + 1))
            id == r.resp.body.agent_id
        IN  /\ r.resp.body.heartbeat_token = r.rows[id].heartbeat_token
            /\ \A j \in DOMAIN store :
                  store[j].heartbeat_token # r.resp.body.heartbeat_token

\* C12 as claimed: on two tables that differ only in the heartbeat tokens of
\* their records, list, search, getById and heartbeat answer the same; the
\* response of a registration alone carries the token.
C12_TokenNeverObservable ==
    /\ \A other \in TokenVariants :
          /\ SameReads(other)
          /\ \A id \in DOMAIN store, body \in RegistryBodies,
                authorization \in KnownHeaders :
                HeartbeatResult(store, id, body, authorization, clock).resp
                    = HeartbeatResult(other, id, body, authorization, clock).resp
    /\ RegisterReturnsOwnToken

\* C12 as amended: list, search and getById answer the same on two such
\* tables; a heartbeat compares the token presented with the token stored, so
\* it answers the same on both whenever both accept the header or both refuse
\* it, and its response carries no token; the response of a registration
\* carries the token of the record it creates.
C12_TokenOnlyCompared ==
    /\ \A other \in TokenVariants :
          /\ SameReads(other)
          /\ \A id \in DOMAIN store, body \in RegistryBodies,
                authorization \in KnownHeaders :
                (HeartbeatReject(store, id, authorization) = None
                    <=> HeartbeatReject(other, id, authorization) = None)
                => HeartbeatResult(store, id, body, authorization, clock).resp
                     = HeartbeatResult(other, id, body, authorization, clock).resp
    /\ \A id \in DOMAIN store, body \in RegistryBodies :
          DOMAIN HeartbeatResult(store, id, body,
                     Some(<<Bearer>> \o store[id].heartbeat_token),
                     clock).resp.body
              = {"success", "agent_id", "last_seen", "status"}
    /\ RegisterReturnsOwnToken

\* two records, one with a heartbeat behind it, read the same when the tokens
\* are replaced
C12_Witness ==
    \E i \in DOMAIN store, j \in DOMAIN store :
        /\ i # j
        /\ store[i].last_seen # None
        /\ Retokened(store, ForgedToken) # store
        /\ GetResult(store, i, clock).resp
              = GetResult(Retokened(store, ForgedToken), i, clock).resp
        /\ HeartbeatResult(store, i, Body(None, None, None),
                           Some(<<Bearer>> \o store[i].heartbeat_token),
                           clock).resp.code = 200
        /\ HeartbeatResult(Retokened(store, store[j].heartbeat_token), i,
                           Body(None, None, None),
                           Some(<<Bearer>> \o store[i].heartbeat_token),
                           clock).resp.code = 403

\* cards that fail a structural check of the validator: a name of trimmed
\* length 1, a description of trimmed length 1, a skill id with a space in it
\* and an empty skill id
RefusedCards ==
    { AgentCard(<<"A">>),
      AgentCard(<<" ", "A", " ">>),
      [AgentCard(<<"a", "b">>) EXCEPT !.description = <<"d", " ">>],
      [AgentCard(<<"a", "b">>) EXCEPT
          !.skills = <<AgentSkill(<<"x", " ", "y">>, <<"S">>, <<>>)>>],
      [AgentCard(<<"a", "b">>) EXCEPT
          !.skills = <<AgentSkill(<<>>, <<"S">>, <<>>)>>] }

\* C13: registering a card that fails a structural check of the validator
\* fails, returns no id and no token, and leaves the table as it was.
C13_RegisterValidates ==
    \A card \in RefusedCards :
        LET r == RegisterResult(store, card, clock, TokenOf(issued + 1))
        IN  ~ValidateResult(model_dump(card)).valid =>
                /\ r.resp.code # 200
                /\ r.rows = store

NotFound == HTTPError(404, "Agent not found")

\* C14: deleting an identifier the table does not hold fails with 404 and
\* leaves the table as it was; deleting one it holds removes that row and no
\* other, after which a get, a heartbeat (with the token the row had) and a
\* second delete on it fail with 404, until a registration takes it again.
C14_DeleteRemovesExactlyOne ==
    \A id \in RequestIds :
        LET r == DeleteResult(store, id)
        IN  IF id \notin DOMAIN store
            THEN r = Result(NotFound, store)
            ELSE /\ r.resp.code = 200
                 /\ DOMAIN r.rows = DOMAIN store \ {id}
                 /\ \A j \in DOMAIN store \ {id} : r.rows[j] = store[j]
                 /\ \A now \in CallTimes :
                       GetResult(r.rows, id, now) = Result(NotFound, r.rows)
                 /\ \A body \in RegistryBodies,
                       authorization \in KnownHeaders :
                       HeartbeatResult(r.rows, id, body, authorization, clock)
                           = Result(NotFound, r.rows)
                 /\ DeleteResult(r.rows, id) = Result(NotFound, r.rows)
                 /\ \A card \in LiveCards :
                       LET again == RegisterResult(r.rows, card, clock,
                                                   TokenOf(issued + 1))
                       IN  again.resp.body.agent_id = id =>
                               GetResult(again.rows, id, clock).resp.code = 200

\* the first of two records has been deleted; the second, with a heartbeat
\* behind it, is as it was
C14_Witness ==
    /\ issued = 2
    /\ Cardinality(DOMAIN store) = 1
    /\ \E j \in DOMAIN store :
          /\ store[j].heartbeat_token = TokenOf(2)
          /\ store[j].last_seen # None
          /\ store[j].status = "busy"
    /\ GetResult(store, <<"a">>, clock).resp = NotFound
    /\ DeleteResult(store, <<"a">>) = Result(NotFound, store)

\* the identifiers of the records a search returned
Found(response) == { a.id : a \in response.body.results }

\* text contains sub, letter case aside
ContainsNoCase(text, sub) == Contains(Lower(text), Lower(sub))

\* the records that satisfy every predicate given, as C15 reads them
Satisfying(now, skill, tag, q, online, status) ==
    { i \in DOMAIN store :
        LET agent == store[i]
            card == agent.card_json
        IN  /\ skill # None =>
                  \E n \in DOMAIN card.skills :
                      \/ ContainsNoCase(card.skills[n].id, skill[1])
                      \/ ContainsNoCase(card.skills[n].name, skill[1])
            /\ tag # None =>
                  \E n \in DOMAIN card.skills :
                      \E t \in DOMAIN card.skills[n].tags :
                          ContainsNoCase(card.skills[n].tags[t], tag[1])
            /\ q # None =>
                  \/ ContainsNoCase(card.name, q[1])
                  \/ ContainsNoCase(card.description, q[1])
            /\ status # None => agent.status = status[1]
            /\ online # None => (is_agent_online(agent, now) = online[1]) }

\* C15: a search returns the records that satisfy every predicate given:
\* skill, tag and q as substrings whatever the letter case (q in the name or
\* the description of the card only), status as the stored status, online as
\* the online flag; without a predicate it returns every record.
C15_SearchConjunction ==
    /\ Found(SearchResult(store, clock, clock, None, None, None, None, None,
                          None)) = DOMAIN store
    /\ \A skill \in SkillParams, tag \in TagParams, q \in QParams,
          online \in OnlineFilters, status \in StatusFilters :
          LET r == SearchResult(store, clock, clock, skill, tag, q, None,
                                online, status)
          IN  /\ r.code = 200
              /\ Found(r) = Satisfying(clock, skill, tag, q, online, status)
              /\ \A a \in r.body.results :
                    a = agent_model_to_response(store[a.id], clock)

\* C16: a search by capability answers for every table, and returns a record
\* when the capabilities of its card have the flag set to true, and not one
\* whose card has no capabilities, lacks the flag or has it false.
C16_CapabilityTotal ==
    \A capability \in CapabilityParams \ {None} :
        LET r == SearchResult(store, clock, clock, None, None, None,
                              capability, None, None)
        IN  /\ r.code = 200
            /\ Found(r) =
                  { i \in DOMAIN store :
                      LET caps == store[i].card_json.capabilities
                      IN  /\ caps # None
                          /\ capability[1] \in DOMAIN caps[1]
                          /\ caps[1][capability[1]] }

\* the step is a registration that was given the identifier `id`
SuccessfulRegister(id) ==
    \E card \in LiveCards :
        LET r == RegisterResult(store, card, clock, TokenOf(issued + 1))
        IN  /\ r.resp.code = 200
            /\ r.resp.body.agent_id = id
            /\ store' = r.rows
            /\ clock' = clock

\* the step is a deletion of the record `id`
SuccessfulDelete(id) ==
    LET r == DeleteResult(store, id)
    IN  r.resp.code = 200 /\ store' = r.rows /\ clock' = clock

\* C17: the identifiers of the table change only in a registration, which adds
\* one, or in a deletion, which removes one; time passing, heartbeats, the
\* reads and validate add and remove nothing, and a listing without filters
\* returns every record, however old its last_seen.
C17_IdsOnlyByRegisterOrDelete ==
    /\ [](\A now \in CallTimes :
            Listed(ListResult(store, now, now, DefaultLimit, 0, None, None))
                = DOMAIN store)
    /\ [][DOMAIN store' # DOMAIN store =>
            \/ \E id \in DOMAIN store' \ DOMAIN store :
                  /\ DOMAIN store' = DOMAIN store \cup {id}
                  /\ SuccessfulRegister(id)
            \/ \E id \in DOMAIN store \ DOMAIN store' :
                  /\ DOMAIN store' = DOMAIN store \ {id}
                  /\ SuccessfulDelete(id)]_vars

\* a record a minute past the threshold, still listed
C17_Witness ==
    \E id \in DOMAIN store :
        /\ store[id].last_seen # None
        /\ clock - store[id].last_seen[1] > ONLINE_THRESHOLD_MINUTES
        /\ id \in Listed(ListResult(store, clock, clock, DefaultLimit, 0,
                                    None, None))
        /\ id \notin Listed(ListResult(store, clock, clock, DefaultLimit, 0,
                                       Some(TRUE), None))

\* the errors of a result that refer to the field `field`
ErrorsAt(res, field) == SelectSeq(res.errors, LAMBDA e : e.loc = field)

\* C18: validate accepts the name of a card when its length, the spaces
\* around it not counted, is in [2,100], whatever its length with them, and
\* returns it without them; otherwise the result is invalid, with one error
\* that refers to the name.
C18_NameByTrimmedLength ==
    card_data # NoCard =>
        LET trimmed == Strip(card_data.name)
        IN  IF Len(trimmed) \in NameMinLength..NameMaxLength
            THEN /\ ErrorsAt(result, <<"name">>) = <<>>
                 /\ result.valid => result.card[1].name = trimmed
            ELSE /\ ~result.valid
                 /\ Len(ErrorsAt(result, <<"name">>)) = 1

\* the base slug as C19 words it: the name in lower case, with a hyphen for
\* every space and every underscore
BaseSlug(name) ==
    [i \in 1..Len(name) |->
        IF name[i] \in {" ", "_"} THEN "-" ELSE LowerChar(name[i])]

\* C19: a registration is given the base slug of the name when no record has
\* it, and otherwise base-k for the smallest k >= 1 that no record has, k being
\* at most one more than the number of records; two names with one base slug
\* are given the same identifier on the same table.
C19_SmallestUnusedSuffix ==
    /\ \A card \in Cards :
          LET ids == DOMAIN store
              base_id == BaseSlug(card.name)
              id == RegisterResult(store, card, clock,
                                   TokenOf(issued + 1)).resp.body.agent_id
          IN  IF base_id \notin ids
              THEN id = base_id
              ELSE \E k \in 1..(Cardinality(ids) + 1) :
                      /\ id = Suffixed(base_id, k)
                      /\ id \notin ids
                      /\ \A j \in 1..(k - 1) : Suffixed(base_id, j) \in ids
    /\ \A c1 \in Cards, c2 \in Cards :
          BaseSlug(c1.name) = BaseSlug(c2.name) =>
              AssignId(DOMAIN store, c1.name) = AssignId(DOMAIN store, c2.name)

\* "A_1" and "a 1" have registered one after the other, and "A" twice
C19_Witness ==
    /\ {<<"a">>, <<"a", "-", "1">>, <<"a", "-", "1", "-", "1">>,
        <<"a", "-", "2">>} = DOMAIN store
    /\ store[<<"a", "-", "1">>].name = <<"A", "_", "1">>
    /\ store[<<"a", "-", "1", "-", "1">>].name = <<"a", " ", "1">>
    /\ store[<<"a", "-", "2">>].name = <<"A">>

\* cards the validator accepts
AcceptedCards ==
    { card \in Cards \cup SearchCards \cup {PaddedCard} :
        ValidateResult(model_dump(card)).valid }

-----------------------------------------------------------------------------
(* C21 - C22. *)

Returned(response) ==
    IF "agents" \in DOMAIN response.body THEN response.body.agents
    ELSE response.body.results

\* C21: every record a listing or a search with online=true returns is
\* annotated online, and every record one with online=false returns is
\* annotated not online, whatever time passes between the query and the
\* annotation.
C21_AnnotationAgreesWithFilter ==
    \A w \in Workers :
        (wresp[w].code = 200 /\ "filters" \in DOMAIN wresp[w].body
            /\ wresp[w].body.filters.online # None) =>
            \A a \in Returned(wresp[w]) :
                a.state.online = wresp[w].body.filters.online[1]

====
